---- MODULE Spec2Model ----
(***************************************************************************)
(* Model of command.handleRunEndpoint (src/proto/types.pb.go:595-638): the *)
(* local "run" command compiles js.wasm once, then serves HTTP on :3000.   *)
(* Every request runs the closure of lines 616-636 in its own goroutine    *)
(* (net/http): it instantiates the compiled module with a fresh stdout     *)
(* buffer, and decodes the trailer line "body|status" of what the guest    *)
(* wrote into the HTTP response.                                           *)
(*                                                                         *)
(* Strings are sequences of one-character strings.  The variable err is    *)
(* the one declared at line 600: the closure assigns it with "=" at line   *)
(* 626, so all request goroutines share it.                                *)
(***************************************************************************)
EXTENDS Integers, Sequences, FiniteSets, TLC

\* Number of requests in flight at once (one goroutine each).
NumRequests == 2

\* Longest guest output explored by the single-request specification.
MaxLen == 7

Requests == 1..NumRequests

LF == "\n"
Bar == "|"

\* The characters guest output is built from: a payload letter, the field
\* separator, the line terminator, and a digit.
Chars == {"a", Bar, LF, "2"}

\* Every guest output of at most MaxLen characters.
AllOutputs == UNION {[1..n -> Chars] : n \in 0..MaxLen}

\* The outputs of the guests used when several requests run at once:
\* a well-formed trailer after a log line, a line without separator, a
\* non-numeric status, two separators, and no output at all.
ConcOutputs ==
  { <<"a", LF, "a", Bar, "2", "2", "2", LF>>,
    <<"a", LF>>,
    <<"a", Bar, "a", LF>>,
    <<"a", Bar, "2", "2", "2", Bar, "a", LF>>,
    <<>> }

Paths == {"/", "/favicon.ico"}

\* What runtime.InstantiateModule can do: return nil, return an error, or
\* never return (ctx is context.Background(): no deadline, no cancellation).
GuestResults == {"ok", "error", "hang"}

VARIABLES
  mainPc,      \* position of handleRunEndpoint itself
  compileLog,  \* who called runtime.CompileModule, in order (0: startup code)
  err,         \* the captured variable err: 0 is nil, r > 0 the error returned
               \* to request r's InstantiateModule call
  pc,          \* pc[r]: position of request r's handler
  path,        \* path[r]: r.URL.Path
  out,         \* out[r]: the handler's bytes.Buffer (guest stdout)
  ret,         \* ret[r]: what request r's own InstantiateModule call returned
  last,        \* last[r]: the local of line 632
  parts,       \* parts[r]: the local of line 633
  status,      \* status[r]: the local of line 634
  resp         \* resp[r]: what the client of request r got

vars == <<mainPc, compileLog, err, pc, path, out, ret, last, parts, status, resp>>

hvars == <<pc, path, out, ret, last, parts, status, resp>>

----------------------------------------------------------------------------
(* Pure helpers: the library functions the handler calls.                  *)

RECURSIVE IndexOf(_, _, _)
\* Least index >= i of character c in s, or 0.
IndexOf(s, c, i) ==
  IF i > Len(s) THEN 0
  ELSE IF s[i] = c THEN i
  ELSE IndexOf(s, c, i + 1)

RECURSIVE Split(_, _)
\* strings.Split(s, sep) for a one-character sep: every sep cuts, so the
\* result has (number of sep in s) + 1 elements; Split("") is <<"">>.
Split(s, c) ==
  LET i == IndexOf(s, c, 1)
  IN IF i = 0 THEN <<s>>
     ELSE <<SubSeq(s, 1, i - 1)>> \o Split(SubSeq(s, i + 1, Len(s)), c)

Digits == {"0", "1", "2", "3", "4", "5", "6", "7", "8", "9"}

DigitVal(c) ==
  CASE c = "0" -> 0 [] c = "1" -> 1 [] c = "2" -> 2 [] c = "3" -> 3
    [] c = "4" -> 4 [] c = "5" -> 5 [] c = "6" -> 6 [] c = "7" -> 7
    [] c = "8" -> 8 [] c = "9" -> 9

RECURSIVE DecValue(_)
DecValue(s) ==
  IF Len(s) = 0 THEN 0
  ELSE 10 * DecValue(SubSeq(s, 1, Len(s) - 1)) + DigitVal(s[Len(s)])

\* Whether strconv.Atoi(s) returns a nil error: an optional sign, then at
\* least one decimal digit and nothing else.  (A value outside int64 is an
\* error too; it needs 19 digits, beyond every output explored here.)
AtoiOk(s) ==
  LET d == IF Len(s) > 0 /\ s[1] \in {"+", "-"} THEN Tail(s) ELSE s
  IN Len(d) > 0 /\ \A i \in 1..Len(d) : d[i] \in Digits

\* The int strconv.Atoi(s) returns: 0 together with a syntax error.
Atoi(s) ==
  IF ~AtoiOk(s) THEN 0
  ELSE IF s[1] = "-" THEN 0 - DecValue(Tail(s))
  ELSE IF s[1] = "+" THEN DecValue(Tail(s))
  ELSE DecValue(s)

\* net/http checkWriteHeaderCode: WriteHeader panics on any other code.
ValidHeaderCode(code) == code >= 100 /\ code <= 999

\* net/http bodyAllowedForStatus: Write drops the body for these statuses.
BodyAllowed(code) == ~(code >= 100 /\ code <= 199) /\ code # 204 /\ code # 304

HandlerDigit == <<"1", "2", "3", "4", "5", "6", "7", "8", "9">>

\* err.Error() of the error returned to request e's instantiation.
ErrorString(e) == <<"E", HandlerDigit[e]>>

NoResp == [state |-> "none", status |-> 0, body |-> <<>>]

Sent(code, body) == [state |-> "sent", status |-> code, body |-> body]

\* A panic in the handler: net/http recovers it, logs it and closes the
\* connection; nothing was written, so the client gets no response.
Aborted == [state |-> "aborted", status |-> 0, body |-> <<>>]

----------------------------------------------------------------------------
(* Startup: handleRunEndpoint up to ListenAndServe (lines 596-616).        *)

Init ==
  /\ mainPc = "readWasm"
  /\ compileLog = <<>>
  /\ err = 0
  /\ pc = [r \in Requests |-> "idle"]
  /\ path = [r \in Requests |-> "/"]
  /\ out = [r \in Requests |-> <<>>]
  /\ ret = [r \in Requests |-> 0]
  /\ last = [r \in Requests |-> <<>>]
  /\ parts = [r \in Requests |-> <<>>]
  /\ status = [r \in Requests |-> 0]
  /\ resp = [r \in Requests |-> NoResp]

\* Lines 600-603: b, err := os.ReadFile("js.wasm"); an error exits.
ReadWasm(ok) ==
  /\ mainPc = "readWasm"
  /\ mainPc' = IF ok THEN "readScript" ELSE "exited"
  /\ UNCHANGED <<compileLog, err, hvars>>

\* Lines 604-607: jsb, err := os.ReadFile(args[0]); an error exits.
ReadScript(ok) ==
  /\ mainPc = "readScript"
  /\ mainPc' = IF ok THEN "compile" ELSE "exited"
  /\ UNCHANGED <<compileLog, err, hvars>>

\* Lines 609-612: mod, err := runtime.CompileModule(ctx, b); an error exits.
CompileModule(ok) ==
  /\ mainPc = "compile"
  /\ compileLog' = Append(compileLog, 0)
  /\ mainPc' = IF ok THEN "wasi" ELSE "exited"
  /\ UNCHANGED <<err, hvars>>

\* Line 614: wasi_snapshot_preview1.MustInstantiate panics on failure.
MustInstantiate(ok) ==
  /\ mainPc = "wasi"
  /\ mainPc' = IF ok THEN "serving" ELSE "exited"
  /\ UNCHANGED <<compileLog, err, hvars>>

Startup ==
  \E ok \in BOOLEAN :
    \/ ReadWasm(ok)
    \/ ReadScript(ok)
    \/ CompileModule(ok)
    \/ MustInstantiate(ok)

----------------------------------------------------------------------------
(* The request handler: the closure of lines 616-636, one step per         *)
(* statement that reads or writes something another goroutine can see, or  *)
(* that can panic.                                                         *)

\* Line 616: http.ListenAndServe accepts a request and runs the handler in
\* a goroutine of its own.
Serve(r, p) ==
  /\ mainPc = "serving"
  /\ pc[r] = "idle"
  /\ path' = [path EXCEPT ![r] = p]
  /\ pc' = [pc EXCEPT ![r] = "checkPath"]
  /\ UNCHANGED <<mainPc, compileLog, err, out, ret, last, parts, status, resp>>

\* Lines 617-620: a favicon request returns at once; the handler wrote
\* nothing, so net/http sends 200 with an empty body.  Otherwise out is a
\* new, empty buffer.
CheckPath(r) ==
  /\ pc[r] = "checkPath"
  /\ IF path[r] = "/favicon.ico"
       THEN /\ resp' = [resp EXCEPT ![r] = Sent(200, <<>>)]
            /\ pc' = [pc EXCEPT ![r] = "done"]
            /\ out' = out
       ELSE /\ out' = [out EXCEPT ![r] = <<>>]
            /\ pc' = [pc EXCEPT ![r] = "instantiate"]
            /\ resp' = resp
  /\ UNCHANGED <<mainPc, compileLog, err, path, ret, last, parts, status>>

\* Lines 621-626 with the compile log the step leaves behind: the guest
\* runs on the shared compiled module mod and writes some o of outs to this
\* request's buffer; the call returns nil or an error, which is stored in
\* the shared err, or it never returns.
InstantiateModuleLogging(r, outs, log) ==
  /\ pc[r] = "instantiate"
  /\ compileLog' = log
  /\ \E o \in outs, g \in GuestResults :
       /\ out' = [out EXCEPT ![r] = o]
       /\ IF g = "hang"
            THEN /\ pc' = [pc EXCEPT ![r] = "blocked"]
                 /\ UNCHANGED <<err, ret>>
            ELSE /\ err' = (IF g = "ok" THEN 0 ELSE r)
                 /\ ret' = [ret EXCEPT ![r] = IF g = "ok" THEN 0 ELSE r]
                 /\ pc' = [pc EXCEPT ![r] = "checkErr"]
  /\ UNCHANGED <<mainPc, path, last, parts, status, resp>>

\* A handler that compiled the module itself on every request.
InstantiateModuleCompiling(r, outs) ==
  InstantiateModuleLogging(r, outs, Append(compileLog, r))

\* Lines 621-626: the handler only instantiates; it never compiles.
InstantiateModule(r, outs) ==
  InstantiateModuleLogging(r, outs, compileLog)

\* Line 627: if err != nil, reading the shared err.  The goroutines race on
\* err; the steps interleave its writes and reads.  A torn read of the
\* two-word interface value adds no outcome: a nil type word reads as nil,
\* and a type word with a nil data word panics in err.Error(), as the nil
\* err of WriteErr does.
CheckErr(r) ==
  /\ pc[r] = "checkErr"
  /\ pc' = [pc EXCEPT ![r] = IF err # 0 THEN "writeErr" ELSE "splitLines"]
  /\ UNCHANGED <<mainPc, compileLog, err, path, out, ret, last, parts, status, resp>>

\* Lines 628-629: w.Write([]byte(err.Error())); return.  err is read again:
\* a nil err makes err.Error() panic; otherwise the first Write sends the
\* implicit status 200 and the error text as body.
WriteErr(r) ==
  /\ pc[r] = "writeErr"
  /\ IF err = 0
       THEN /\ resp' = [resp EXCEPT ![r] = Aborted]
            /\ pc' = [pc EXCEPT ![r] = "panicked"]
       ELSE /\ resp' = [resp EXCEPT ![r] = Sent(200, ErrorString(err))]
            /\ pc' = [pc EXCEPT ![r] = "done"]
  /\ UNCHANGED <<mainPc, compileLog, err, path, out, ret, last, parts, status>>

\* The Go index of the element line 632 reads, given len(lines).
TrailerIndexLast(n) == n - 1

TrailerIndex(n) == n - 2

\* Lines 631-632: lines := strings.Split(out.String(), "\n");
\* last := lines[len(lines)-2].  An index below 0 panics.
SplitLines(r) ==
  /\ pc[r] = "splitLines"
  /\ LET lines == Split(out[r], LF)
         i == TrailerIndex(Len(lines))
     IN IF i < 0 \/ i >= Len(lines)
          THEN /\ resp' = [resp EXCEPT ![r] = Aborted]
               /\ pc' = [pc EXCEPT ![r] = "panicked"]
               /\ last' = last
          ELSE /\ last' = [last EXCEPT ![r] = lines[i + 1]]
               /\ pc' = [pc EXCEPT ![r] = "parseTrailer"]
               /\ resp' = resp
  /\ UNCHANGED <<mainPc, compileLog, err, path, out, ret, parts, status>>

\* Lines 633-634: parts := strings.Split(last, "|");
\* status, _ := strconv.Atoi(parts[1]).  parts[1] panics when last holds
\* no "|"; the error of Atoi is dropped.
ParseTrailer(r) ==
  /\ pc[r] = "parseTrailer"
  /\ LET ps == Split(last[r], Bar)
     IN IF Len(ps) < 2
          THEN /\ resp' = [resp EXCEPT ![r] = Aborted]
               /\ pc' = [pc EXCEPT ![r] = "panicked"]
               /\ UNCHANGED <<parts, status>>
          ELSE /\ parts' = [parts EXCEPT ![r] = ps]
               /\ status' = [status EXCEPT ![r] = Atoi(ps[2])]
               /\ pc' = [pc EXCEPT ![r] = "emit"]
               /\ resp' = resp
  /\ UNCHANGED <<mainPc, compileLog, err, path, out, ret, last>>

\* Lines 635-636: w.WriteHeader(status); w.Write([]byte(parts[0])).
\* WriteHeader panics on a code outside 100..999.
Emit(r) ==
  /\ pc[r] = "emit"
  /\ IF ~ValidHeaderCode(status[r])
       THEN /\ resp' = [resp EXCEPT ![r] = Aborted]
            /\ pc' = [pc EXCEPT ![r] = "panicked"]
       ELSE /\ resp' = [resp EXCEPT ![r] =
                  Sent(status[r],
                       IF BodyAllowed(status[r]) THEN parts[r][1] ELSE <<>>)]
            /\ pc' = [pc EXCEPT ![r] = "done"]
  /\ UNCHANGED <<mainPc, compileLog, err, path, out, ret, last, parts, status>>

\* One step of request r's handler whose guest may write any of outs.
Handler(r, outs) ==
  \/ \E p \in Paths : Serve(r, p)
  \/ CheckPath(r)
  \/ InstantiateModule(r, outs)
  \/ CheckErr(r)
  \/ WriteErr(r)
  \/ SplitLines(r)
  \/ ParseTrailer(r)
  \/ Emit(r)

\* The server under concurrent requests.
Next == Startup \/ \E r \in Requests : Handler(r, ConcOutputs)

Spec == Init /\ [][Next]_vars

\* The server handling a single request, over every guest output.
NextOne == Startup \/ Handler(1, AllOutputs)

SpecOne == Init /\ [][NextOne]_vars

----------------------------------------------------------------------------
(* Vocabulary of the properties.                                           *)

\* Request r's handler has returned or panicked.
Finished(r) == pc[r] \in {"done", "panicked"}

\* Request r's guest ran and returned without error, and the handler ended.
RanToEnd(r) == Finished(r) /\ path[r] = "/" /\ ret[r] = 0

Count(s, c) == Cardinality({i \in 1..Len(s) : s[i] = c})

IsDecimal(s) == Len(s) > 0 /\ \A i \in 1..Len(s) : s[i] \in Digits

\* The text of s before its first "|", and the text after it.
BeforeBar(s) == SubSeq(s, 1, IndexOf(s, Bar, 1) - 1)

AfterBar(s) == SubSeq(s, IndexOf(s, Bar, 1) + 1, Len(s))

\* The elements of o split on line terminators, and the trailer candidate:
\* the element at index length-2.
LinesOf(o) == Split(o, LF)

HasCandidate(o) == Len(LinesOf(o)) >= 2

Candidate(o) == LinesOf(o)[Len(LinesOf(o)) - 1]

\* o is free-form lines, then one line body|N, then one line terminator.
WellFormed(o) ==
  /\ Len(o) > 0
  /\ o[Len(o)] = LF
  /\ Count(Candidate(o), Bar) = 1
  /\ IsDecimal(AfterBar(Candidate(o)))

\* The last non-empty line of o, read off the characters: it ends at the
\* last character that is no line terminator and starts after the line
\* terminator before that.
HasNonEmptyLine(o) == \E i \in 1..Len(o) : o[i] # LF

LineEnd(o) == CHOOSE e \in 1..Len(o) :
  o[e] # LF /\ \A k \in (e + 1)..Len(o) : o[k] = LF

LineStart(o) == CHOOSE b \in 1..LineEnd(o) :
  /\ \A k \in b..LineEnd(o) : o[k] # LF
  /\ b = 1 \/ o[b - 1] = LF

LastNonEmptyLine(o) == SubSeq(o, LineStart(o), LineEnd(o))

\* o ends in a line terminator that directly follows a non-empty line.
EndsInTerminatedLine(o) ==
  Len(o) >= 2 /\ o[Len(o)] = LF /\ o[Len(o) - 1] # LF

HostErrorStatus == 500..599

Shares(a, b) == \E i \in 1..Len(a), j \in 1..Len(b) : a[i] = b[j]

----------------------------------------------------------------------------
(* Properties.                                                             *)

\* C1: a guest output of free-form lines, a trailer body|N and one final
\* line terminator is answered with status N and body body.
C1_WellFormedOutputAnswered ==
  \A r \in Requests :
    (RanToEnd(r) /\ WellFormed(out[r])) =>
      resp[r] = Sent(DecValue(AfterBar(Candidate(out[r]))),
                     BeforeBar(Candidate(out[r])))

\* C2: a trailer candidate without "|" is answered by a host-generated 502
\* whose body holds no byte of the guest output.
C2_NoSeparatorGives502 ==
  \A r \in Requests :
    (RanToEnd(r) /\ HasCandidate(out[r]) /\ Count(Candidate(out[r]), Bar) = 0) =>
      /\ resp[r].state = "sent"
      /\ resp[r].status = 502
      /\ ~Shares(resp[r].body, out[r])

\* C3: what a request's response reports comes from that request's own
\* instantiation only: it carries an error text exactly when its own
\* instantiation failed, and then the text of that error.
C3_NoCrossRequestState ==
  \A r \in Requests :
    (Finished(r) /\ path[r] = "/") =>
      IF ret[r] = 0
        THEN resp[r].state = "sent" => \A e \in Requests : resp[r].body # ErrorString(e)
        ELSE resp[r].state = "sent" /\ resp[r].body = ErrorString(ret[r])

\* C4: every request ends with a response: no handler ends without one,
\* and none is left waiting for a guest with no timeout to end the wait.
C4_EveryRequestAnswered ==
  \A r \in Requests :
    /\ pc[r] # "blocked"
    /\ Finished(r) => resp[r].state = "sent"

\* C5: a failed instantiation is answered with a host-chosen 5xx status and
\* a body that is not the error's text.
C5_ExecutionErrorSynthesized ==
  \A r \in Requests :
    (Finished(r) /\ path[r] = "/" /\ ret[r] # 0) =>
      /\ resp[r].state = "sent"
      /\ resp[r].status \in HostErrorStatus
      /\ resp[r].body # ErrorString(ret[r])

\* C6: a trailer whose status field is no base-10 integer is answered by a
\* host-side 502.
C6_NonIntegerStatusGives502 ==
  \A r \in Requests :
    (/\ RanToEnd(r)
     /\ HasCandidate(out[r])
     /\ Count(Candidate(out[r]), Bar) >= 1
     /\ ~AtoiOk(AfterBar(Candidate(out[r])))) =>
      resp[r].state = "sent" /\ resp[r].status = 502

\* C7: an output of fewer than 2 lines is answered by a host-generated
\* error response, and no element at a negative index is read.
C7_TooFewLinesAnswered ==
  \A r \in Requests :
    (RanToEnd(r) /\ ~HasCandidate(out[r])) =>
      /\ resp[r].state = "sent"
      /\ resp[r].status \in HostErrorStatus
      /\ TrailerIndex(Len(LinesOf(out[r]))) >= 0

\* C8: the module is compiled at most once, by the startup code and never
\* by a request handler, and every handler runs on that one compilation.
C8_CompileOnce ==
  /\ Len(compileLog) <= 1
  /\ \A i \in 1..Len(compileLog) : compileLog[i] = 0
  /\ \A r \in Requests : pc[r] # "idle" => compileLog = <<0>>

\* C8 witness: two requests have both instantiated the module.
C8_Witness ==
  \E r, q \in Requests :
    /\ r # q
    /\ pc[r] \in {"checkErr", "blocked"}
    /\ pc[q] \in {"checkErr", "blocked"}
    /\ compileLog = <<0>>

\* C9 as stated: for every output, the line taken as trailer is the last
\* non-empty line of the output.
C9_TrailerIsLastNonEmptyLine ==
  \A r \in Requests :
    (pc[r] \in {"parseTrailer", "emit"} /\ HasNonEmptyLine(out[r])) =>
      last[r] = LastNonEmptyLine(out[r])

\* C9 amended: for every output that ends in a line terminator directly
\* after a non-empty line, the line taken as trailer is the last non-empty
\* line of the output.
C9_TerminatedTrailerIsLastNonEmptyLine ==
  \A r \in Requests :
    (pc[r] \in {"parseTrailer", "emit"} /\ EndsInTerminatedLine(out[r])) =>
      last[r] = LastNonEmptyLine(out[r])

\* C9 witness: the trailer of an output of two lines has been taken.
C9_Witness ==
  \E r \in Requests :
    /\ pc[r] = "parseTrailer"
    /\ EndsInTerminatedLine(out[r])
    /\ Count(out[r], LF) = 2
    /\ Len(LinesOf(out[r])[1]) > 0
    /\ last[r] = LinesOf(out[r])[2]
    /\ last[r] # LinesOf(out[r])[1]

\* C10: the status field is everything after the first "|", so a trailer
\* with more than one "|" is never decoded into a response.
C10_SplitAtFirstBarOnly ==
  \A r \in Requests :
    (/\ RanToEnd(r)
     /\ HasCandidate(out[r])
     /\ Count(Candidate(out[r]), Bar) > 1) =>
      ~(pc[r] = "done" /\ resp[r] = Sent(status[r], parts[r][1]))

\* The place of a handler position in the pipeline: accept, execute
\* (instantiate), the error check, decode (splitLines, parseTrailer),
\* emit (writeErr, emit), the end.
Rank(p) ==
  CASE p = "idle" -> 0
    [] p = "checkPath" -> 1
    [] p = "instantiate" -> 2
    [] p = "checkErr" -> 3
    [] p = "splitLines" -> 4
    [] p = "parseTrailer" -> 5
    [] p \in {"emit", "writeErr"} -> 6
    [] p \in {"done", "panicked", "blocked"} -> 7

\* Request r's handler is splitting, parsing or emitting its buffer.
Decoding(r) == pc[r] \in {"splitLines", "parseTrailer", "emit"}

\* C11: a handler moves forward only (execute, then decode, then emit, no
\* step revisited), and it decodes only when its own guest run returned
\* without error: the output of a failed run is never split, parsed or
\* used for the response.
C11_DecodeOnlyAfterSuccess ==
  /\ [][\A r \in Requests : pc'[r] # pc[r] => Rank(pc'[r]) > Rank(pc[r])]_vars
  /\ [](\A r \in Requests :
          /\ Decoding(r) => ret[r] = 0
          /\ (Finished(r) /\ path[r] = "/" /\ ret[r] # 0) =>
               resp[r] \in {Sent(200, ErrorString(ret[r])), Aborted})

====
